---- MODULE Spec2Model ----
(***************************************************************************)
(* A model of starfuse: the virtual path layer (fs/vfs.py), the Pakfile    *)
(* front-end (pak/pakfile.py), the BTreeDB4 record reader                  *)
(* (pak/btreedb4.py, pak/storage/BTreeDB4.py) and the paged mapping        *)
(* (fs/mapped_file.py).                                                    *)
(*                                                                         *)
(* Strings are sequences of one-character strings, byte strings are        *)
(* sequences of numbers 0..255.                                            *)
(***************************************************************************)
EXTENDS Integers, Sequences, FiniteSets, TLC

VARIABLES
    file_index, \* Package._index: asset path -> lookup entry
    pending,    \* index items Pakfile.__init__ has not registered yet
    tree,       \* VFS.root and the dicts below it: node path -> node
    pc,         \* "loading", "ready" (constructed) or "failed" (constructor raised)
    loadErr,    \* the exception that ended Pakfile.__init__, "none" otherwise
    last,       \* the last call made on the Pakfile and what it returned
    calls,      \* calls made so far, where a specification bounds them
    stored,     \* what the block file was written from: key -> value
    blocks,     \* the block file's blocks: block index -> its bytes
    root_node,  \* BTreeDB4.root_node: the block index of the active root
    file_len,   \* length of the file a MappedFile is opened on
    pages,      \* MappedFile._pages: page id -> its mapping
    mmaps,      \* page id -> how many mmap() calls have mapped it
    thr,        \* thread -> where it is in MappedFile.region
    cursor,     \* MappedFile.cursor
    reg,        \* a Region made by region(): base_offset, size, cursor
    file_open,  \* MappedFile._file is open
    released,   \* ids of the pages whose mapping has been closed
    repair,     \* BTreeDB4.repair
    walk,       \* _leaf_for_key in progress: its key, its block, the index blocks it met
    rdr,        \* a LeafReader a caller holds
    db          \* what BTreeDB4.__load and Package.get_index left in the object

pakVars == <<file_index, pending, tree, pc, loadErr>>
dbVars == <<stored, blocks, root_node, repair, walk, rdr>>
mapVars == <<file_len, pages, mmaps, thr, cursor>>
regVars == <<reg, file_open, released>>
vars == <<pakVars, last, calls, dbVars, regVars, mapVars, db>>

-----------------------------------------------------------------------------
(* Bounds *)

MaxDepth == 2       \* components of an asset path of the index
MaxIndex == 2       \* entries of the index
MaxPathLen == 4     \* characters of a path a caller asks for
DigestLen == 1      \* bytes of a lookup entry (a digest)
KeySize == 1        \* key_size of the database header
BlockSize == 16     \* block_size of the block file header
MaxOffset == 3      \* offset a caller reads at
MaxSize == 3        \* size a caller reads
MaxCalls == 2       \* add_file calls on one VFS
MaxEntries == 2     \* entries of a record
MaxValLen == 2      \* bytes of a stored value
PageSize == 2       \* MappedFile._page_size
MaxFileLen == 5     \* length of a mapped file
NumThreads == 2     \* threads of the mount that call region()
MaxCursor == 4      \* how far the root cursor is followed

-----------------------------------------------------------------------------
(* Strings *)

Sep == "/"

RECURSIVE SeqsOfLen(_, _)
SeqsOfLen(S, n) ==
    IF n = 0 THEN {<<>>}
    ELSE {Append(s, c) : s \in SeqsOfLen(S, n - 1), c \in S}

SeqsUpTo(S, n) == UNION {SeqsOfLen(S, k) : k \in 0..n}

\* str.__contains__: n occurs in s as a substring
Substring(n, s) ==
    \E i \in 0..(Len(s) - Len(n)) : SubSeq(s, i + 1, i + Len(n)) = n

RECURSIVE LStrip(_)
LStrip(s) == IF s # <<>> /\ Head(s) = Sep THEN LStrip(Tail(s)) ELSE s

RECURSIVE RStrip(_)
RStrip(s) ==
    IF s # <<>> /\ s[Len(s)] = Sep THEN RStrip(SubSeq(s, 1, Len(s) - 1)) ELSE s

\* str.strip(os.sep)
Strip(s) == RStrip(LStrip(s))

RECURSIVE FirstSep(_, _)
FirstSep(s, i) ==
    IF i > Len(s) THEN 0 ELSE IF s[i] = Sep THEN i ELSE FirstSep(s, i + 1)

\* str.split(os.sep): never empty, ''.split('/') is ['']
RECURSIVE Split(_)
Split(s) ==
    LET k == FirstSep(s, 1) IN
    IF k = 0 THEN <<s>>
    ELSE <<SubSeq(s, 1, k - 1)>> \o Split(SubSeq(s, k + 1, Len(s)))

\* VFS._split_path
SplitPath(path) == Split(Strip(path))

\* names[:-1]
Front(s) == SubSeq(s, 1, Len(s) - 1)

-----------------------------------------------------------------------------
(* Inputs *)

NameChars == {"a", "B"}
Names == {<<c>> : c \in NameChars}

\* "/n1/.../nk"
RECURSIVE PathsOfDepth(_)
PathsOfDepth(k) ==
    IF k = 0 THEN {<<>>}
    ELSE {p \o <<Sep>> \o n : p \in PathsOfDepth(k - 1), n \in Names}

AssetPaths == UNION {PathsOfDepth(k) : k \in 1..MaxDepth}

QueryPaths == SeqsUpTo(NameChars \cup {Sep}, MaxPathLen)

DigestBytes == {"a", "x"}
Lookups == SeqsOfLen(DigestBytes, DigestLen)

Indexes ==
    UNION {[ps -> Lookups] : ps \in {s \in SUBSET AssetPaths : Cardinality(s) <= MaxIndex}}

-----------------------------------------------------------------------------
(* Bytes and the SBON primitives *)

Byte == 0..255

RECURSIVE Pow(_, _)
Pow(b, n) == IF n = 0 THEN 1 ELSE b * Pow(b, n - 1)

\* the n big-endian base-256 digits of v, 0 <= v < 256^n
RECURSIVE Digits(_, _)
Digits(v, n) == IF n = 0 THEN <<>> ELSE Append(Digits(v \div 256, n - 1), v % 256)

RECURSIVE Unsigned(_)
Unsigned(bs) ==
    IF bs = <<>> THEN 0 ELSE Unsigned(Front(bs)) * 256 + bs[Len(bs)]

\* struct.pack('>i', v) and struct.unpack('>i', bs): two's complement, computed
\* a byte at a time
Complement(bs) == [i \in 1..Len(bs) |-> 255 - bs[i]]
PackI32(v) == IF v < 0 THEN Complement(Digits(-v - 1, 4)) ELSE Digits(v, 4)
UnpackI32(bs) ==
    IF bs[1] >= 128 THEN -Unsigned(Complement(bs)) - 1 ELSE Unsigned(bs)

\* the varlen encoding of n: 7 bits a byte, big-endian, the high bit set on
\* every byte but the last
RECURSIVE VarlenHigh(_)
VarlenHigh(n) ==
    IF n = 0 THEN <<>> ELSE Append(VarlenHigh(n \div 128), 128 + (n % 128))
WriteVarlen(n) == Append(VarlenHigh(n \div 128), n % 128)

\* lexicographic a < b of byte strings (str.__lt__)
RECURSIVE BytesLess(_, _)
BytesLess(a, b) ==
    IF b = <<>> THEN FALSE
    ELSE IF a = <<>> THEN TRUE
    ELSE IF Head(a) # Head(b) THEN Head(a) < Head(b)
    ELSE BytesLess(Tail(a), Tail(b))

\* Python's s[start:stop] for integers start, stop
PySlice(s, start, stop) ==
    LET n == Len(s)
        clamp(i) == IF i < 0 THEN (IF i + n < 0 THEN 0 ELSE i + n)
                    ELSE IF i > n THEN n ELSE i
    IN  SubSeq(s, clamp(start) + 1, clamp(stop))

-----------------------------------------------------------------------------
(* Key encoding: pak/pakfile.py *)

CharCode(c) ==
    CASE c = "/" -> 47 [] c = "_" -> 95
      [] c = "a" -> 97 [] c = "b" -> 98 [] c = "x" -> 120
      [] c = "A" -> 65 [] c = "B" -> 66

\* str.lower()
LowerChar(c) == CASE c = "A" -> "a" [] c = "B" -> "b" [] OTHER -> c
Lower(s) == [i \in 1..Len(s) |-> LowerChar(s[i])]

\* key.encode('utf-8')
Utf8(s) == [i \in 1..Len(s) |-> CharCode(s[i])]

\* hashlib.sha256(bs).digest(), cut to KeySize bytes: a fixed function of the
\* bytes, one-to-one on the paths of the model
RECURSIVE Mix(_)
Mix(bs) == IF bs = <<>> THEN 7 ELSE (Mix(Front(bs)) * 31 + bs[Len(bs)]) % Pow(256, KeySize)
Sha256(bs) == Digits(Mix(bs), KeySize)

\* encode_key (module level) and KeyStore.encode_key
EncodeKey(key) == Sha256(Utf8(key))

\* Package.encode_key
PackageEncodeKey(key) == EncodeKey(Lower(key))

-----------------------------------------------------------------------------
(* Blocks: pak/btreedb4.py *)

SigIndex == <<73, 73>>     \* b'II'
SigLeaf == <<76, 76>>      \* b'LL'
SigFree == <<70, 70>>      \* b'FF'

NoBlock == [kind |-> "none", index |-> -1, err |-> "none", level |-> 0,
            keys |-> <<>>, values |-> <<>>, data |-> <<>>, next |-> -1]

\* value if value != -1 else None; None is -1 here
NoneIfMinus1(v) == v

\* BTreeIndex.__init__: level, num_keys, left_block, then num_keys (key, block)
RECURSIVE IndexPairs(_, _, _, _)
IndexPairs(bs, at, n, acc) ==
    IF n <= 0 THEN acc
    ELSE IF at + KeySize + 4 > Len(bs) THEN [acc EXCEPT !.err = "value_error"]
    ELSE IndexPairs(bs, at + KeySize + 4, n - 1,
            [acc EXCEPT !.keys = Append(@, SubSeq(bs, at + 1, at + KeySize)),
                        !.values = Append(@, UnpackI32(SubSeq(bs, at + KeySize + 1, at + KeySize + 4)))])

BTreeIndex(index, bs) ==
    IF Len(bs) < 11 THEN [NoBlock EXCEPT !.err = "value_error"]
    ELSE IndexPairs(bs, 11, UnpackI32(SubSeq(bs, 4, 7)),
            [NoBlock EXCEPT !.kind = "index", !.index = index, !.level = bs[3],
                            !.values = <<UnpackI32(SubSeq(bs, 8, 11))>>])

\* BTreeLeaf.__init__: data is block_size - 6 bytes, then next_block
BTreeLeaf(index, bs) ==
    [NoBlock EXCEPT !.kind = "leaf", !.index = index,
                    !.data = SubSeq(bs, 3, BlockSize - 4),
                    !.next = NoneIfMinus1(UnpackI32(SubSeq(bs, BlockSize - 3, BlockSize)))]

\* BTreeFree.__init__: raw_data is block_region.region(), a Region, and
\* raw_data[:4] subscripts it. Region defines no __getitem__, so the
\* constructor raises TypeError before next_free_block is set.
BTreeFree(index, bs) == [NoBlock EXCEPT !.err = "type_error"]

\* BTreeRestoredLeaf.__init__: free_block.raw_data[:-4] subscripts the same
\* Region
BTreeRestoredLeaf(free_block) ==
    IF free_block.kind # "free" THEN [NoBlock EXCEPT !.err = "assert"]
    ELSE [NoBlock EXCEPT !.err = "type_error"]

SigNull == <<0, 0>>        \* b'\0\0'

\* signature is not b'\0\0': an identity test between the string read from
\* the file and the literal of the code object. The two are distinct objects
\* (only strings of length 0 and 1 are shared), so the test is true for every
\* signature, the null one included.
IsNot(signature, literal) == TRUE

\* BTreeDB4.block / get_block: the block's region, its signature, its class
Block(bl, index) ==
    IF index \notin DOMAIN bl THEN [NoBlock EXCEPT !.err = "io"]
    ELSE LET bs == bl[index]
             signature == SubSeq(bs, 1, 2)
         IN  IF signature = SigIndex THEN BTreeIndex(index, bs)
             ELSE IF signature = SigLeaf THEN BTreeLeaf(index, bs)
             ELSE IF signature = SigFree THEN BTreeFree(index, bs)
             ELSE IF IsNot(signature, SigNull)
                  THEN [NoBlock EXCEPT !.err = "invalid_signature"]
             ELSE NoBlock

\* bisect.bisect_right(a, x)
RECURSIVE BisectRight(_, _, _, _)
BisectRight(a, x, lo, hi) ==
    IF lo >= hi THEN lo
    ELSE LET mid == (lo + hi) \div 2 IN
         IF BytesLess(x, a[mid + 1]) THEN BisectRight(a, x, lo, mid)
         ELSE BisectRight(a, x, mid + 1, hi)

\* BTreeIndex.block_for_key
BlockForKey(block, key) ==
    block.values[BisectRight(block.keys, key, 0, Len(block.keys)) + 1]

\* BTreeDB4._leaf_for_key: the loop, with the steps it may still take
RECURSIVE ScanDown(_, _, _, _)
ScanDown(bl, block, key, steps) ==
    IF block.err # "none" THEN block
    ELSE IF block.kind # "index" THEN
        IF block.kind = "leaf" THEN block ELSE [NoBlock EXCEPT !.err = "assert"]
    ELSE IF steps = 0 THEN [NoBlock EXCEPT !.err = "diverges"]
    ELSE ScanDown(bl, Block(bl, BlockForKey(block, key)), key, steps - 1)

\* the fields of a BTreeDB4 before __load, and Package._index
NoDb == [identifier |-> <<>>, alternate_root_node |-> FALSE,
         other_root_node |-> -1, root_node_is_leaf |-> FALSE,
         other_root_node_is_leaf |-> FALSE, fields |-> <<>>,
         index_value |-> <<>>, index_type |-> "none", index |-> <<>>]

\* _leaf_for_key between two iterations of its loop
NoWalk == [on |-> FALSE, key |-> <<>>, block |-> NoBlock, visited |-> <<>>]

LeafForKey(bl, root, key) ==
    IF Len(key) # KeySize THEN [NoBlock EXCEPT !.err = "assert"]
    ELSE ScanDown(bl, Block(bl, root), key, Cardinality(DOMAIN bl) + 1)

-----------------------------------------------------------------------------
(* LeafReader: pak/btreedb4.py *)

\* LeafReader.__init__
\* repair is _file.repair, False after BTreeDB4.__init__
LeafReader(leaf) ==
    [leaf |-> leaf, offset |-> 0, visited |-> <<leaf.index>>, repair |-> FALSE]

NoReader == [on |-> FALSE, r |-> LeafReader(NoBlock)]

Got(r, data, err) == [r |-> r, data |-> data, err |-> err]

InSeq(x, s) == \E i \in 1..Len(s) : s[i] = x

\* LeafReader.read, the while loop with length bytes still wanted: the next
\* leaf is followed, then read, then the loop goes on or ends
RECURSIVE ReadOn(_, _, _, _)

\* the loop that adds what it read of the last leaf to the old offset
ReadOnChunkOffsetAdds(bl, r, buffer, length, chunk) ==
    IF length - Len(chunk) > 0
    THEN ReadOn(bl, r, buffer \o chunk, length - Len(chunk))
    ELSE Got([r EXCEPT !.offset = @ + Len(chunk)], buffer \o chunk, "none")

ReadOnChunk(bl, r, buffer, length, chunk) ==
    IF length - Len(chunk) > 0
    THEN ReadOn(bl, r, buffer \o chunk, length - Len(chunk))
    ELSE Got([r EXCEPT !.offset = Len(chunk)], buffer \o chunk, "none")

\* self._leaf is assigned before the assertion on its class
ReadOnChecked(bl, r, buffer, length, leaf) ==
    IF leaf.err # "none" THEN Got(r, buffer, leaf.err)
    ELSE IF leaf.kind # "leaf" THEN Got([r EXCEPT !.leaf = leaf], buffer, "chain_broken")
    ELSE ReadOnChunk(bl, [r EXCEPT !.leaf = leaf], buffer, length,
                     PySlice(leaf.data, 0, length))

\* self._leaf = self._file.block(next_block), restored in repair mode
ReadOnLeaf(bl, r, buffer, length, leaf) ==
    IF leaf.err # "none" THEN Got(r, buffer, leaf.err)
    ELSE IF r.repair /\ leaf.kind = "free"
         THEN ReadOnChecked(bl, r, buffer, length, BTreeRestoredLeaf(leaf))
    ELSE ReadOnChecked(bl, r, buffer, length, leaf)

\* the loop without the assertion on visited blocks
ReadOnUnchecked(bl, r, buffer, length) ==
    IF r.leaf.next = -1 THEN Got(r, buffer, "too_far")
    ELSE ReadOnLeaf(bl, [r EXCEPT !.visited = Append(@, r.leaf.next)], buffer, length,
                    Block(bl, r.leaf.next))

ReadOn(bl, r, buffer, length) ==
    IF r.leaf.next = -1 THEN Got(r, buffer, "too_far")
    ELSE IF InSeq(r.leaf.next, r.visited) THEN Got(r, buffer, "visited_again")
    ELSE ReadOnLeaf(bl, [r EXCEPT !.visited = Append(@, r.leaf.next)], buffer, length,
                    Block(bl, r.leaf.next))

\* LeafReader.read after the first test: the current leaf is exhausted
Exhaust(bl, r, length, head) == ReadOn(bl, r, head, length - Len(head))

\* LeafReader.read; a reader left on a block that is no leaf has no data
ReaderRead(bl, r, length) ==
    IF r.leaf.kind # "leaf" THEN Got(r, <<>>, "attribute_error")
    ELSE IF r.offset + length <= Len(r.leaf.data)
    THEN Got([r EXCEPT !.offset = @ + length],
             PySlice(r.leaf.data, r.offset, r.offset + length), "none")
    ELSE Exhaust(bl, r, length, PySlice(r.leaf.data, r.offset, Len(r.leaf.data)))

-----------------------------------------------------------------------------
(* SBON over a LeafReader: pak/sbon.py *)

Num(r, value, err) == [r |-> r, value |-> value, err |-> err]

\* sbon.read_varlen_number: 7 bits a byte, the high bit says one more follows
RECURSIVE ReadVarlenFrom(_, _, _)

ReadVarlenByte(bl, value, g) ==
    IF g.err # "none" THEN Num(g.r, value, g.err)
    ELSE IF g.data[1] < 128 THEN Num(g.r, value * 128 + g.data[1], "none")
    ELSE ReadVarlenFrom(bl, g.r, value * 128 + (g.data[1] % 128))

ReadVarlenFrom(bl, r, value) == ReadVarlenByte(bl, value, ReaderRead(bl, r, 1))

ReadVarlenNumber(bl, r) == ReadVarlenFrom(bl, r, 0)

\* sbon.read_bytes: a varlen length, then that many bytes
ReadBytesOf(bl, n) ==
    IF n.err # "none" THEN Got(n.r, <<>>, n.err) ELSE ReaderRead(bl, n.r, n.value)

ReadBytes(bl, r) == ReadBytesOf(bl, ReadVarlenNumber(bl, r))

-----------------------------------------------------------------------------
(* Record lookup: pak/btreedb4.py and pak/storage/BTreeDB4.py *)

Found(err, data, size) == [err |-> err, data |-> data, size |-> size]

\* the for loop of get_leaf_value / file_contents, from entry i of num_keys:
\* the key is read, then the value, then the keys are compared
RECURSIVE ValueScan(_, _, _, _, _)

\* the loop that takes the entry it is on, whatever its key
ValueScanValueAny(bl, key, i, num_keys, cur_key, value) ==
    IF value.err # "none" THEN Found(value.err, <<>>, 0)
    ELSE Found("none", value.data, Len(value.data))

ValueScanValue(bl, key, i, num_keys, cur_key, value) ==
    IF value.err # "none" THEN Found(value.err, <<>>, 0)
    ELSE IF cur_key = key THEN Found("none", value.data, Len(value.data))
    ELSE ValueScan(bl, value.r, key, i + 1, num_keys)

ValueScanKey(bl, key, i, num_keys, cur_key) ==
    IF cur_key.err # "none" THEN Found(cur_key.err, <<>>, 0)
    ELSE ValueScanValue(bl, key, i, num_keys, cur_key.data, ReadBytes(bl, cur_key.r))

ValueScan(bl, r, key, i, num_keys) ==
    IF i >= num_keys THEN Found("key_error", <<>>, 0)
    ELSE ValueScanKey(bl, key, i, num_keys, ReaderRead(bl, r, KeySize))

\* the for loop of BTreeDB4.file_size (pak/btreedb4.py): the key is read, then
\* the varlen, then the payload is read over, then the keys are compared
RECURSIVE SizeScan(_, _, _, _, _)

SizeScanSkip(bl, key, i, num_keys, cur_key, size, skip) ==
    IF skip.err # "none" THEN Found(skip.err, <<>>, 0)
    ELSE IF cur_key = key THEN Found("none", <<>>, size)
    ELSE SizeScan(bl, skip.r, key, i + 1, num_keys)

SizeScanSize(bl, key, i, num_keys, cur_key, size) ==
    IF size.err # "none" THEN Found(size.err, <<>>, 0)
    ELSE SizeScanSkip(bl, key, i, num_keys, cur_key, size.value,
                      ReaderRead(bl, size.r, size.value))

SizeScanKey(bl, key, i, num_keys, cur_key) ==
    IF cur_key.err # "none" THEN Found(cur_key.err, <<>>, 0)
    ELSE SizeScanSize(bl, key, i, num_keys, cur_key.data, ReadVarlenNumber(bl, cur_key.r))

SizeScan(bl, r, key, i, num_keys) ==
    IF i >= num_keys THEN Found("key_error", <<>>, 0)
    ELSE SizeScanKey(bl, key, i, num_keys, ReaderRead(bl, r, KeySize))

\* the for loop of get_leaf_size (pak/storage/BTreeDB4.py): the key is read,
\* then the varlen, then the keys are compared; the next key is read right
\* after the varlen
RECURSIVE LeafSizeScan(_, _, _, _, _)

LeafSizeScanSize(bl, key, i, num_keys, cur_key, size) ==
    IF size.err # "none" THEN Found(size.err, <<>>, 0)
    ELSE IF cur_key = key THEN Found("none", <<>>, size.value)
    ELSE LeafSizeScan(bl, size.r, key, i + 1, num_keys)

LeafSizeScanKey(bl, key, i, num_keys, cur_key) ==
    IF cur_key.err # "none" THEN Found(cur_key.err, <<>>, 0)
    ELSE LeafSizeScanSize(bl, key, i, num_keys, cur_key.data,
                          ReadVarlenNumber(bl, cur_key.r))

LeafSizeScan(bl, r, key, i, num_keys) ==
    IF i >= num_keys THEN Found("key_error", <<>>, 0)
    ELSE LeafSizeScanKey(bl, key, i, num_keys, ReaderRead(bl, r, KeySize))

\* num_keys, = struct.unpack('>i', stream.read(4)); assert num_keys < 1000
MaxNumKeys == 1000

\* a scan of the record the descent for key reaches: the leaf, then num_keys
\* the loop of the lookup that is running
Scan(which, bl, r, key, i, num_keys) ==
    IF which = "file_contents" THEN ValueScan(bl, r, key, i, num_keys)
    ELSE IF which = "file_size" THEN SizeScan(bl, r, key, i, num_keys)
    ELSE LeafSizeScan(bl, r, key, i, num_keys)

OnHead(which, bl, key, head) ==
    IF head.err # "none" THEN Found(head.err, <<>>, 0)
    ELSE IF ~(UnpackI32(head.data) < MaxNumKeys) THEN Found("assert", <<>>, 0)
    ELSE Scan(which, bl, head.r, key, 0, UnpackI32(head.data))

OnLeaf(which, bl, key, leaf) ==
    IF leaf.err # "none" THEN Found(leaf.err, <<>>, 0)
    ELSE OnHead(which, bl, key, ReaderRead(bl, LeafReader(leaf), 4))

OnRecord(which, bl, root, key) == OnLeaf(which, bl, key, LeafForKey(bl, root, key))

\* BTreeDB4.file_contents and BTreeDB4.file_size (pak/btreedb4.py), raw_key=True
FileContents(bl, root, key) == OnRecord("file_contents", bl, root, key)
FileSize(bl, root, key) == OnRecord("file_size", bl, root, key)

\* BTreeDB4.get_binary and BTreeDB4.get_binary_size (pak/storage/BTreeDB4.py)
GetBinary(bl, root, key) == OnRecord("file_contents", bl, root, key)
GetBinarySize(bl, root, key) == OnRecord("get_leaf_size", bl, root, key)

\* Pakfile's self.pkg.get and self.pkg.get_size: the Package is a BTreeDB4 of
\* pak/btreedb4.py, whose value and size lookups are file_contents and
\* file_size; keyed() encodes the key with Package.encode_key
PkgGet(bl, root, key) == FileContents(bl, root, PackageEncodeKey(key))
PkgGetSize(bl, root, key) == FileSize(bl, root, PackageEncodeKey(key))

\* binascii.hexlify
HexDigits == <<"0", "1", "2", "3", "4", "5", "6", "7",
               "8", "9", "a", "b", "c", "d", "e", "f">>

RECURSIVE Hexlify(_)
Hexlify(bs) ==
    IF bs = <<>> THEN <<>>
    ELSE <<HexDigits[(Head(bs) \div 16) + 1], HexDigits[(Head(bs) % 16) + 1]>>
         \o Hexlify(Tail(bs))

\* keyed(), the except clause: BTreeKeyError(hex_key), or
\* BTreeKeyError('%s (%s)' % (hex_key, args[1]))
KeyedMessage(raw_key, key, arg) ==
    IF raw_key THEN Hexlify(key)
    ELSE Hexlify(key) \o <<" ", "(">> \o arg \o <<")">>

\* keyed(): what the wrapped call gave, a key error raised again with the
\* message of the wrapper
Keyed(raw_key, key, arg, f) ==
    [err |-> f.err, data |-> f.data, size |-> f.size, key |-> key,
     msg |-> IF f.err = "key_error" THEN KeyedMessage(raw_key, key, arg) ELSE <<>>]

\* Package.file_contents(path) and Package.file_contents(key, raw_key=True):
\* keyed() encodes the path, asserts the key's length, calls file_contents
KeyedFileContents(bl, root, arg, raw_key) ==
    LET key == IF raw_key THEN arg ELSE PackageEncodeKey(arg) IN
    Keyed(raw_key, key, arg,
          IF Len(key) # KeySize THEN Found("assert", <<>>, 0)
          ELSE FileContents(bl, root, key))

-----------------------------------------------------------------------------
(* A block file written from its entries (a key and a value each) *)

Entries(kv) == {[key |-> k, value |-> kv[k]] : k \in DOMAIN kv}

\* the entries in ascending key order
RECURSIVE Sorted(_)
Sorted(es) ==
    IF es = {} THEN <<>>
    ELSE LET least == CHOOSE e \in es : \A f \in es : ~BytesLess(f.key, e.key) IN
         <<least>> \o Sorted(es \ {least})

RECURSIVE RecordBody(_)
RecordBody(es) ==
    IF es = <<>> THEN <<>>
    ELSE Head(es).key \o WriteVarlen(Len(Head(es).value)) \o Head(es).value
         \o RecordBody(Tail(es))

\* num_keys, then (key, varlen, payload) of each entry
Record(es) == PackI32(Len(es)) \o RecordBody(es)

Zeros(n) == [i \in 1..n |-> 0]

LeafData == BlockSize - 6

\* the leaves that hold a byte stream, the first one at block index first
LeafCount(stream) == IF Len(stream) = 0 THEN 1 ELSE (Len(stream) + LeafData - 1) \div LeafData

LeafAt(stream, first, j) ==
    LET part == PySlice(stream, j * LeafData, (j + 1) * LeafData) IN
    SigLeaf \o part \o Zeros(LeafData - Len(part))
    \o PackI32(IF j + 1 = LeafCount(stream) THEN -1 ELSE first + j + 1)

\* a database whose root is the first leaf of the one record
LeafFileOf(stream) == [b \in 0..(LeafCount(stream) - 1) |-> LeafAt(stream, 0, b)]

LeafRootFile(es) == LeafFileOf(Record(Sorted(es)))

\* the entries es with one more entry for key k right after the entry of k
RECURSIVE InsertAfter(_, _, _)
InsertAfter(es, k, value) ==
    IF es = <<>> THEN <<>>
    ELSE IF Head(es).key = k
         THEN <<Head(es), [key |-> k, value |-> value]>> \o Tail(es)
         ELSE <<Head(es)>> \o InsertAfter(Tail(es), k, value)

\* a database whose record holds the key k twice
TwiceRootFile(es, k, value) == LeafFileOf(Record(InsertAfter(Sorted(es), k, value)))

\* an index block of level 0 with one key
IndexBlock(key, left, right) ==
    LET body == SigIndex \o <<0>> \o PackI32(1) \o PackI32(left) \o key \o PackI32(right)
    IN  body \o Zeros(BlockSize - Len(body))

\* a database whose root is an index block at 0: the keys below sep are in the
\* record of the left leaf, the others in the record of the right leaf
IndexRootFile(es, sep) ==
    LET left == Record(Sorted({e \in es : BytesLess(e.key, sep)}))
        right == Record(Sorted({e \in es : ~BytesLess(e.key, sep)}))
        nl == LeafCount(left)
        nr == LeafCount(right)
    IN  [b \in 0..(nl + nr) |->
            IF b = 0 THEN IndexBlock(sep, 1, 1 + nl)
            ELSE IF b <= nl THEN LeafAt(left, 1, b - 1)
            ELSE LeafAt(right, 1 + nl, b - 1 - nl)]

-----------------------------------------------------------------------------
(* VFS: fs/vfs.py *)

DirNode == [isdir |-> TRUE, lookup |-> <<>>]
FileNode(lookup) == [isdir |-> FALSE, lookup |-> lookup]

\* VFS.__init__: root = dict()
EmptyTree == (<<>> :> DirNode)

\* A Python value a walk holds: a dict of the tree (at its node path) or the
\* lookup entry of a file (a str).
DictAt(at) == [isdict |-> TRUE, at |-> at, str |-> <<>>]
StrVal(s) == [isdict |-> FALSE, at |-> <<>>, str |-> s]

\* name in cur
Contains(t, cur, name) ==
    IF cur.isdict THEN Append(cur.at, name) \in DOMAIN t
    ELSE Substring(name, cur.str)

\* cur[name] of a dict that has name
Item(t, cur, name) ==
    LET at == Append(cur.at, name) IN
    IF t[at].isdir THEN DictAt(at) ELSE StrVal(t[at].lookup)

\* isinstance(cur[name], dict) of a dict that has name
ItemIsDict(t, cur, name) == t[Append(cur.at, name)].isdir

Walk(t, cur, err) == [tree |-> t, cur |-> cur, err |-> err]

\* VFS._mkdirp, from the i-th name on
RECURSIVE MkdirpFrom(_, _, _, _, _)
MkdirpFrom(t, cur, names, i, mkdirs) ==
    IF i > Len(names) THEN Walk(t, cur, "none")
    ELSE LET name == names[i] IN
        IF ~Contains(t, cur, name) THEN
            IF ~mkdirs THEN Walk(t, cur, "not_found")
            ELSE IF ~cur.isdict THEN Walk(t, cur, "type_error")
            ELSE MkdirpFrom(t @@ (Append(cur.at, name) :> DirNode),
                            DictAt(Append(cur.at, name)), names, i + 1, mkdirs)
        ELSE IF ~cur.isdict THEN Walk(t, cur, "not_a_dir")
        ELSE MkdirpFrom(t, Item(t, cur, name), names, i + 1, mkdirs)

Mkdirp(t, names, mkdirs) == MkdirpFrom(t, DictAt(<<>>), names, 1, mkdirs)

Added(t, err) == [tree |-> t, err |-> err]

\* direc[filename] = lookup
SetItem(t, direc, filename, lookup) ==
    (Append(direc.at, filename) :> FileNode(lookup)) @@ t

\* an add_file that binds the name again when it is already bound to a file
AddFileInOverwrite(w, filename, lookup) ==
    IF w.err # "none" THEN Added(w.tree, w.err)
    ELSE IF ~w.cur.isdict THEN Added(w.tree, "type_error")
    ELSE IF Contains(w.tree, w.cur, filename) /\ ItemIsDict(w.tree, w.cur, filename)
        THEN Added(w.tree, "is_a_dir")
    ELSE Added(SetItem(w.tree, w.cur, filename, lookup), "none")

\* VFS.add_file after the walk to the parent directory
AddFileIn(w, filename, lookup) ==
    IF w.err # "none" THEN Added(w.tree, w.err)
    ELSE IF Contains(w.tree, w.cur, filename) THEN
        IF ~w.cur.isdict THEN Added(w.tree, "type_error")
        ELSE IF ItemIsDict(w.tree, w.cur, filename) THEN Added(w.tree, "is_a_dir")
        ELSE Added(w.tree, "none")
    ELSE IF ~w.cur.isdict THEN Added(w.tree, "type_error")
    ELSE Added(SetItem(w.tree, w.cur, filename, lookup), "none")

AddFileNames(t, names, lookup, mkdirs) ==
    AddFileIn(Mkdirp(t, Front(names), mkdirs), names[Len(names)], lookup)

\* VFS.add_file
AddFile(t, abspath, lookup, mkdirs) ==
    AddFileNames(t, SplitPath(abspath), lookup, mkdirs)

-----------------------------------------------------------------------------
(* Pakfile: pak/pakfile.py *)

NoCall == [op |-> "none", path |-> <<>>, offset |-> 0, size |-> 0, advance |-> FALSE,
           lookup |-> <<>>, key |-> <<>>,
           err |-> "none", isfile |-> FALSE, at |-> <<>>, names |-> {},
           data |-> <<>>, num |-> 0, looked |-> FALSE, kind |-> "none",
           msg |-> <<>>]

Entry(err, isfile, at) == [err |-> err, isfile |-> isfile, at |-> at]

\* Pakfile.get_entry after the walk to the parent directory
GetEntryIn(t, w, fname) ==
    IF w.err # "none" THEN Entry(w.err, FALSE, <<>>)
    ELSE IF ~Contains(t, w.cur, fname) THEN Entry("not_found", FALSE, <<>>)
    ELSE IF ~w.cur.isdict THEN Entry("type_error", FALSE, <<>>)
    ELSE Entry("none", ~ItemIsDict(t, w.cur, fname), Append(w.cur.at, fname))

GetEntryNames(t, names) ==
    GetEntryIn(t, Mkdirp(t, Front(names), FALSE), names[Len(names)])

\* Pakfile.get_entry
GetEntry(t, abspath) ==
    IF abspath = <<Sep>> THEN Entry("none", FALSE, <<>>)
    ELSE GetEntryNames(t, SplitPath(abspath))

\* the last names of every node below a node path, however deep
KeysDeep(t, at) ==
    {p[Len(p)] : p \in {q \in DOMAIN t : Len(q) > Len(at) /\ SubSeq(q, 1, Len(at)) = at}}

\* dict.keys() of the directory at a node path
Keys(t, at) == {p[Len(p)] : p \in {q \in DOMAIN t : q # <<>> /\ Front(q) = at}}

Answer(op, abspath) == [NoCall EXCEPT !.op = op, !.path = abspath]

\* Pakfile.get_directory_listing
ListingOf(t, a, e) ==
    IF e.err # "none" THEN [a EXCEPT !.err = e.err]
    ELSE IF e.isfile THEN [a EXCEPT !.err = "not_a_dir", !.isfile = TRUE]
    ELSE [a EXCEPT !.at = e.at, !.names = Keys(t, e.at)]

GetDirectoryListing(t, abspath) ==
    ListingOf(t, Answer("get_directory_listing", abspath), GetEntry(t, abspath))

\* Pakfile.get_size: the entry, then Package.get_size
SizeFound(a, f) == [a EXCEPT !.isfile = TRUE, !.looked = TRUE, !.err = f.err, !.num = f.size]

SizeOf(bl, root, a, e) ==
    IF e.err # "none" THEN [a EXCEPT !.err = e.err]
    ELSE IF ~e.isfile THEN [a EXCEPT !.err = "is_a_dir"]
    ELSE SizeFound(a, PkgGetSize(bl, root, a.path))

GetSize(t, bl, root, abspath) ==
    SizeOf(bl, root, Answer("get_size", abspath), GetEntry(t, abspath))

\* a slice that stops at the size instead of at offset + size
ContentsFoundStopIsSize(a, f) ==
    IF f.err # "none" THEN [a EXCEPT !.isfile = TRUE, !.looked = TRUE, !.err = f.err]
    ELSE [a EXCEPT !.isfile = TRUE, !.looked = TRUE,
                   !.data = PySlice(f.data, a.offset, a.size)]

\* Pakfile.get_file_contents: the entry, then Package.get, then the slice
ContentsFound(a, f) ==
    IF f.err # "none" THEN [a EXCEPT !.isfile = TRUE, !.looked = TRUE, !.err = f.err]
    ELSE [a EXCEPT !.isfile = TRUE, !.looked = TRUE,
                   !.data = PySlice(f.data, a.offset, a.offset + a.size)]

\* a read that asks the package before it tests the entry's kind
ContentsOfLookupFirst(bl, root, a, e) ==
    IF e.err # "none" THEN [a EXCEPT !.err = e.err]
    ELSE IF ~e.isfile THEN [a EXCEPT !.err = "is_a_dir", !.looked = TRUE]
    ELSE ContentsFound(a, PkgGet(bl, root, a.path))

ContentsOf(bl, root, a, e) ==
    IF e.err # "none" THEN [a EXCEPT !.err = e.err]
    ELSE IF ~e.isfile THEN [a EXCEPT !.err = "is_a_dir"]
    ELSE ContentsFound(a, PkgGet(bl, root, a.path))

GetFileContents(t, bl, root, abspath, offset, size) ==
    ContentsOf(bl, root,
               [Answer("get_file_contents", abspath) EXCEPT !.offset = offset, !.size = size],
               GetEntry(t, abspath))

\* FusePAK.read
FuseRead(t, bl, root, path, size, offset) ==
    GetFileContents(t, bl, root, path, offset, size)

-----------------------------------------------------------------------------
(* MappedFile: fs/mapped_file.py *)

Threads == 1..NumThreads
PageIds == 0..(MaxFileLen \div PageSize + 1)

\* the byte of the file at a position
FileByte(i) == (i * 37 + 11) % 256

Min(a, b) == IF a < b THEN a ELSE b

IdleThread == [pc |-> "idle", i |-> 0, upper |-> 0, err |-> "none"]

\* Region.__init__
Region(base_offset, size) == [base |-> base_offset, size |-> size, cursor |-> 0]

NoMapping == [file_len |-> 0, pages |-> <<>>, mmaps |-> [i \in PageIds |-> 0],
              thr |-> [t \in Threads |-> IdleThread], cursor |-> 0,
              reg |-> Region(0, 0), file_open |-> FALSE, released |-> {}]

\* MappedFile.region up to the loop: the ids of the first and the last page
LowerPageId(offset) == (offset - (offset % PageSize)) \div PageSize
UpperPageId(offset, size) == (((offset + size) \div PageSize) * PageSize) \div PageSize

\* mmap.mmap(fileno, offset=page_offset, length=page_size): the mapping, which
\* mmap refuses when it does not lie inside the file
MmapPage(len, i) ==
    [offset |-> i * PageSize, length |-> Min(PageSize, len - i * PageSize)]

\* the bytes of a mapping
PageBytes(page) == [k \in 1..page.length |-> FileByte(page.offset + k - 1)]

\* Region._sanitize_segment, of a region of length len with cursor cur
Sanitized(err, offset, length) == [err |-> err, offset |-> offset, length |-> length]

SanitizeLength(len, offset, length) ==
    IF length = 0 THEN Sanitized("value_error", offset, length)
    ELSE IF length < 0 THEN Sanitized("none", offset, len - offset)
    ELSE Sanitized("none", offset, length)

SanitizeSegment(len, cur, offset, length) ==
    IF offset >= len THEN Sanitized("value_error", offset, length)
    ELSE IF offset < 0 THEN SanitizeLength(len, cur, length)
    ELSE SanitizeLength(len, offset, length)

\* the loop of MappedFile.read
RECURSIVE ReadLoop(_, _, _, _, _)
ReadLoop(pg, length, cur_page, abs_offset, results) ==
    IF length <= 0 THEN Found("none", results, Len(results))
    ELSE IF cur_page \notin DOMAIN pg THEN Found("key_error", <<>>, 0)
    ELSE LET readable == Min(PageSize - abs_offset, length) IN
        ReadLoop(pg, length - readable, cur_page + 1, 0,
                 results \o PySlice(PageBytes(pg[cur_page]), abs_offset, abs_offset + readable))

ReadSanitized(pg, len, s) ==
    IF s.err # "none" THEN Found(s.err, <<>>, 0)
    ELSE ReadLoop(pg, Min(s.length, len), s.offset \div PageSize, s.offset % PageSize, <<>>)

\* MappedFile.read, without the cursor
MappedRead(pg, len, cur, length, offset) ==
    ReadSanitized(pg, len, SanitizeSegment(len, cur, offset, length))

\* MappedFile.__init__: read_only = True, whatever the caller passes
ReadOnly == TRUE

\* MappedFile.read on a file that may have been closed: len(self) seeks the
\* file, which raises ValueError once it is closed
MappedReadOf(open, pg, len, cur, length, offset) ==
    IF ~open THEN Found("value_error", <<>>, 0)
    ELSE MappedRead(pg, len, cur, length, offset)

\* what a read leaves: the result and the two cursors
ReadDone(err, data, regcur, rootcur) ==
    [err |-> err, data |-> data, regcur |-> regcur, rootcur |-> rootcur]

\* a read that moves the region's cursor whether or not advance is set
RegionReadResultAlwaysAdvance(r, rootcur, advance, f) ==
    IF f.err # "none" THEN ReadDone(f.err, <<>>, r.cursor, rootcur)
    ELSE ReadDone("none", f.data, r.cursor + f.size,
                  IF advance THEN rootcur + f.size ELSE rootcur)

\* Region.read after parent.read: both cursors move by len(result) if advance
RegionReadResult(r, rootcur, advance, f) ==
    IF f.err # "none" THEN ReadDone(f.err, <<>>, r.cursor, rootcur)
    ELSE IF advance THEN ReadDone("none", f.data, r.cursor + f.size, rootcur + f.size)
    ELSE ReadDone("none", f.data, r.cursor, rootcur)

RegionReadSanitized(open, pg, len, rootcur, r, advance, s) ==
    IF s.err # "none" THEN ReadDone(s.err, <<>>, r.cursor, rootcur)
    ELSE RegionReadResult(r, rootcur, advance,
            MappedReadOf(open, pg, len, rootcur, s.length, s.offset + r.base))

\* Region.read of a region r whose parent is the MappedFile
RegionRead(open, pg, len, rootcur, r, length, offset, advance) ==
    RegionReadSanitized(open, pg, len, rootcur, r, advance,
                        SanitizeSegment(r.size, r.cursor, offset, length))

\* Region.write: the call of self._sanitaize_segment, a name no class defines
RegionWrite(r, length, offset) == "attribute_error"

\* MappedFile.write
MappedWrite(length, offset) == IF ReadOnly THEN "read_only" ELSE "assert"

\* MappedFile.__getitem__ of an integer offset
GetItem(open, pg, len, offset) ==
    IF ~open THEN Found("value_error", <<>>, 0)
    ELSE IF offset >= len THEN Found("region_overflow", <<>>, 0)
    ELSE IF (offset \div PageSize) \notin DOMAIN pg THEN Found("key_error", <<>>, 0)
    ELSE Found("none", <<PageBytes(pg[offset \div PageSize])[(offset % PageSize) + 1]>>, 1)

\* MappedFile.__setitem__ of an integer offset
SetItemAt(open, len, offset) ==
    IF ReadOnly THEN "read_only"
    ELSE IF ~open THEN "value_error"
    ELSE IF offset >= len THEN "region_overflow"
    ELSE "none"

\* the loop of MappedFile.region run by one thread alone, from page i on
Mapped(err, pg) == [err |-> err, pages |-> pg]

RECURSIVE MapPages(_, _, _, _, _)
MapPages(open, pg, len, i, upper) ==
    IF i > upper THEN Mapped("none", pg)
    ELSE IF i \in DOMAIN pg THEN MapPages(open, pg, len, i + 1, upper)
    ELSE IF ~open THEN Mapped("value_error", pg)
    ELSE IF MmapPage(len, i).length <= 0 THEN Mapped("mmap_error", pg)
    ELSE MapPages(open, (i :> MmapPage(len, i)) @@ pg, len, i + 1, upper)

\* MappedFile.region
MappedRegion(open, pg, len, offset, size) ==
    MapPages(open, pg, len, LowerPageId(offset), UpperPageId(offset, size))

\* Region.region
SubRegionSanitized(open, pg, len, r, s) ==
    IF s.err # "none" THEN [err |-> s.err, pages |-> pg, offset |-> 0, size |-> 0]
    ELSE [err |-> MappedRegion(open, pg, len, r.base + s.offset, s.length).err,
          pages |-> MappedRegion(open, pg, len, r.base + s.offset, s.length).pages,
          offset |-> r.base + s.offset, size |-> s.length]

SubRegion(open, pg, len, r, offset, size) ==
    SubRegionSanitized(open, pg, len, r, SanitizeSegment(r.size, r.cursor, offset, size))

-----------------------------------------------------------------------------
(* The package a Pakfile is opened on *)

\* what the package stores for an asset path
Contents(p) == Utf8(Lower(Strip(p)))

PackageOf(paths) == [k \in {PackageEncodeKey(p) : p \in paths} |->
                        Contents(CHOOSE p \in paths : PackageEncodeKey(p) = k)]

-----------------------------------------------------------------------------
(* Pakfile.__init__: one add_file per index item, in the dict's order; then
   the calls of the mount glue, one at a time *)

Init ==
    /\ file_index \in Indexes
    /\ pending = DOMAIN file_index
    /\ tree = EmptyTree
    /\ pc = "loading"
    /\ loadErr = "none"
    /\ last = NoCall
    /\ calls = 0
    /\ stored = PackageOf(DOMAIN file_index)
    /\ blocks = LeafRootFile(Entries(stored))
    /\ root_node = 0
    /\ repair = FALSE
    /\ walk = NoWalk
    /\ rdr = NoReader
    /\ db = NoDb
    /\ file_len = NoMapping.file_len
    /\ pages = NoMapping.pages
    /\ mmaps = NoMapping.mmaps
    /\ thr = NoMapping.thr
    /\ cursor = NoMapping.cursor
    /\ reg = NoMapping.reg
    /\ file_open = NoMapping.file_open
    /\ released = NoMapping.released

\* one turn of the loop: add_file returns, or raises and ends the constructor
Registered(filepath, r) ==
    /\ tree' = r.tree
    /\ pending' = pending \ {filepath}
    /\ loadErr' = r.err
    /\ pc' = IF r.err # "none" THEN "failed" ELSE "loading"

Register ==
    /\ pc = "loading"
    /\ pending # {}
    /\ \E filepath \in pending :
        Registered(filepath, AddFile(tree, filepath, file_index[filepath], TRUE))
    /\ UNCHANGED <<file_index, last, calls, dbVars, regVars, mapVars, db>>

Loaded ==
    /\ pc = "loading"
    /\ pending = {}
    /\ pc' = "ready"
    /\ UNCHANGED <<file_index, pending, tree, loadErr, last, calls, dbVars, regVars, mapVars, db>>

Idle == pc = "ready" /\ last.op = "none"

EntryAnswer(a, e) == [a EXCEPT !.err = e.err, !.isfile = e.isfile, !.at = e.at]

CallGetEntry ==
    /\ Idle
    /\ \E p \in QueryPaths :
        last' = EntryAnswer(Answer("get_entry", p), GetEntry(tree, p))
    /\ UNCHANGED <<pakVars, calls, dbVars, regVars, mapVars, db>>

CallGetDirectoryListing ==
    /\ Idle
    /\ \E p \in QueryPaths : last' = GetDirectoryListing(tree, p)
    /\ UNCHANGED <<pakVars, calls, dbVars, regVars, mapVars, db>>

CallGetSize ==
    /\ Idle
    /\ \E p \in QueryPaths : last' = GetSize(tree, blocks, root_node, p)
    /\ UNCHANGED <<pakVars, calls, dbVars, regVars, mapVars, db>>

CallGetFileContents ==
    /\ Idle
    /\ \E p \in QueryPaths, offset \in 0..MaxOffset, size \in -1..MaxSize :
        last' = FuseRead(tree, blocks, root_node, p, size, offset)
    /\ UNCHANGED <<pakVars, calls, dbVars, regVars, mapVars, db>>

\* the caller takes the answer
Return ==
    /\ pc = "ready"
    /\ last.op # "none"
    /\ last' = NoCall
    /\ UNCHANGED <<pakVars, calls, dbVars, regVars, mapVars, db>>

Next ==
    \/ Register
    \/ Loaded
    \/ CallGetEntry
    \/ CallGetDirectoryListing
    \/ CallGetSize
    \/ CallGetFileContents
    \/ Return

Spec == Init /\ [][Next]_vars

-----------------------------------------------------------------------------
(* A VFS of its own: any add_file calls, one after the other *)

InitVfs ==
    /\ file_index = <<>>
    /\ pending = {}
    /\ tree = EmptyTree
    /\ pc = "vfs"
    /\ loadErr = "none"
    /\ last = NoCall
    /\ calls = 0
    /\ stored = <<>>
    /\ blocks = <<>>
    /\ root_node = 0
    /\ repair = FALSE
    /\ walk = NoWalk
    /\ rdr = NoReader
    /\ db = NoDb
    /\ file_len = NoMapping.file_len
    /\ pages = NoMapping.pages
    /\ mmaps = NoMapping.mmaps
    /\ thr = NoMapping.thr
    /\ cursor = NoMapping.cursor
    /\ reg = NoMapping.reg
    /\ file_open = NoMapping.file_open
    /\ released = NoMapping.released

AddFileAnswer(abspath, lookup, r) ==
    /\ tree' = r.tree
    /\ last' = [Answer("add_file", abspath) EXCEPT !.err = r.err, !.lookup = lookup]

CallAddFile ==
    /\ pc = "vfs"
    /\ calls < MaxCalls
    /\ calls' = calls + 1
    /\ \E abspath \in AssetPaths, lookup \in Lookups, mkdirs \in BOOLEAN :
        AddFileAnswer(abspath, lookup, AddFile(tree, abspath, lookup, mkdirs))
    /\ UNCHANGED <<file_index, pending, pc, loadErr, dbVars, regVars, mapVars, db>>

NextVfs == CallAddFile

SpecVfs == InitVfs /\ [][NextVfs]_vars

-----------------------------------------------------------------------------
(* A BTreeDB4 of its own: the lookups of both engines, one at a time *)

KeyBytes == {1, 2}
Keys4 == SeqsOfLen(KeyBytes, KeySize)
Values == SeqsUpTo(KeyBytes, MaxValLen)

\* the paths a caller asks a Package for, and the keys a record may hold
RecPaths == {<<"a">>, <<"A">>}
RecKeys == Keys4 \cup {PackageEncodeKey(path) : path \in RecPaths}

Stores ==
    UNION {[ks -> Values] : ks \in {s \in SUBSET RecKeys : Cardinality(s) <= MaxEntries}}

InitRec ==
    /\ file_index = <<>>
    /\ pending = {}
    /\ tree = EmptyTree
    /\ pc = "db"
    /\ loadErr = "none"
    /\ last = NoCall
    /\ calls = 0
    /\ stored \in Stores
    /\ \/ blocks = LeafRootFile(Entries(stored))
       \/ \E sep \in Keys4 : blocks = IndexRootFile(Entries(stored), sep)
       \/ \E k \in DOMAIN stored : \E value \in Values \ {stored[k]} :
            blocks = TwiceRootFile(Entries(stored), k, value)
    /\ root_node = 0
    /\ repair = FALSE
    /\ walk = NoWalk
    /\ rdr = NoReader
    /\ db = NoDb
    /\ file_len = NoMapping.file_len
    /\ pages = NoMapping.pages
    /\ mmaps = NoMapping.mmaps
    /\ thr = NoMapping.thr
    /\ cursor = NoMapping.cursor
    /\ reg = NoMapping.reg
    /\ file_open = NoMapping.file_open
    /\ released = NoMapping.released

LookupAnswer(op, key, f) ==
    [NoCall EXCEPT !.op = op, !.key = key, !.err = f.err, !.data = f.data,
                   !.num = f.size, !.looked = TRUE]

DbIdle == pc = "db" /\ last.op = "none"

KeyedAnswer(op, arg, k) ==
    [NoCall EXCEPT !.op = op, !.path = arg, !.key = k.key, !.err = k.err,
                   !.data = k.data, !.num = k.size, !.msg = k.msg, !.looked = TRUE]

\* db.file_contents(key, raw_key=True)
CallFileContents ==
    /\ DbIdle
    /\ \E key \in RecKeys :
        last' = KeyedAnswer("file_contents", <<>>,
                            KeyedFileContents(blocks, root_node, key, TRUE))
    /\ UNCHANGED <<pakVars, calls, dbVars, regVars, mapVars, db>>

\* db.file_contents(path)
CallFileContentsPath ==
    /\ DbIdle
    /\ \E path \in RecPaths :
        last' = KeyedAnswer("file_contents_path", path,
                            KeyedFileContents(blocks, root_node, path, FALSE))
    /\ UNCHANGED <<pakVars, calls, dbVars, regVars, mapVars, db>>

CallFileSize ==
    /\ DbIdle
    /\ \E key \in RecKeys :
        last' = LookupAnswer("file_size", key, FileSize(blocks, root_node, key))
    /\ UNCHANGED <<pakVars, calls, dbVars, regVars, mapVars, db>>

CallGetBinary ==
    /\ DbIdle
    /\ \E key \in RecKeys :
        last' = LookupAnswer("get_binary", key, GetBinary(blocks, root_node, key))
    /\ UNCHANGED <<pakVars, calls, dbVars, regVars, mapVars, db>>

CallGetBinarySize ==
    /\ DbIdle
    /\ \E key \in RecKeys :
        last' = LookupAnswer("get_binary_size", key, GetBinarySize(blocks, root_node, key))
    /\ UNCHANGED <<pakVars, calls, dbVars, regVars, mapVars, db>>

DbReturn ==
    /\ pc = "db"
    /\ last.op # "none"
    /\ last' = NoCall
    /\ UNCHANGED <<pakVars, calls, dbVars, regVars, mapVars, db>>

NextRec ==
    \/ CallFileContents
    \/ CallFileContentsPath
    \/ CallFileSize
    \/ CallGetBinary
    \/ CallGetBinarySize
    \/ DbReturn

SpecRec == InitRec /\ [][NextRec]_vars

-----------------------------------------------------------------------------
(* A MappedFile of its own: threads in region(), and reads between them *)

InitMap ==
    /\ file_index = <<>>
    /\ pending = {}
    /\ tree = EmptyTree
    /\ pc = "map"
    /\ loadErr = "none"
    /\ last = NoCall
    /\ calls = 0
    /\ stored = <<>>
    /\ blocks = <<>>
    /\ root_node = 0
    /\ repair = FALSE
    /\ walk = NoWalk
    /\ rdr = NoReader
    /\ db = NoDb
    /\ file_len \in 1..MaxFileLen
    /\ pages = <<>>
    /\ mmaps = [i \in PageIds |-> 0]
    /\ thr = [t \in Threads |-> IdleThread]
    /\ cursor = 0
    /\ reg = NoMapping.reg
    /\ file_open = TRUE
    /\ released = {}

MapIdle == pc = "map" /\ last.op = "none"

\* region(offset, size) is entered: the page ids are computed
EnterRegion(t) ==
    /\ MapIdle
    /\ thr[t].pc = "idle"
    /\ \E offset \in 0..(file_len - 1), size \in 1..MaxSize :
        thr' = [thr EXCEPT ![t] = [pc |-> "check", i |-> LowerPageId(offset),
                                   upper |-> UpperPageId(offset, size), err |-> "none"]]
    /\ UNCHANGED <<pakVars, last, calls, dbVars, regVars, file_len, pages, mmaps, cursor, db>>

\* the loop's test of the range, and "if i not in self._pages"
CheckPage(t) ==
    /\ MapIdle
    /\ thr[t].pc = "check"
    /\ thr' = [thr EXCEPT ![t] =
                IF thr[t].i > thr[t].upper THEN IdleThread
                ELSE IF thr[t].i \in DOMAIN pages THEN [@ EXCEPT !.i = @ + 1]
                ELSE [@ EXCEPT !.pc = "map"]]
    /\ UNCHANGED <<pakVars, last, calls, dbVars, regVars, file_len, pages, mmaps, cursor, db>>

\* self._pages[i] = mmap.mmap(...), or mmap raises and region() is left
MapPage(t) ==
    /\ MapIdle
    /\ thr[t].pc = "map"
    /\ IF MmapPage(file_len, thr[t].i).length <= 0
       THEN /\ thr' = [thr EXCEPT ![t] = [IdleThread EXCEPT !.err = "mmap_error"]]
            /\ UNCHANGED <<pages, mmaps, db>>
       ELSE /\ pages' = (thr[t].i :> MmapPage(file_len, thr[t].i)) @@ pages
            /\ mmaps' = [mmaps EXCEPT ![thr[t].i] = @ + 1]
            /\ thr' = [thr EXCEPT ![t] = [@ EXCEPT !.pc = "check", !.i = @ + 1]]
    /\ UNCHANGED <<pakVars, last, calls, dbVars, regVars, file_len, cursor, db>>

ReadAnswer(length, offset, advance, f) ==
    /\ f.err = "none" /\ advance => cursor + f.size <= MaxCursor
    /\ last' = [NoCall EXCEPT !.op = "read", !.size = length, !.offset = offset,
                              !.err = f.err, !.data = f.data, !.num = cursor]
    /\ cursor' = IF f.err = "none" /\ advance THEN cursor + f.size ELSE cursor

\* MappedFile.read(length, offset, advance)
CallRead ==
    /\ MapIdle
    /\ \A t \in Threads : thr[t].pc = "idle"
    /\ \E length \in -1..MaxSize, offset \in -1..MaxFileLen, advance \in BOOLEAN :
        ReadAnswer(length, offset, advance,
                   MappedRead(pages, file_len, cursor, length, offset))
    /\ UNCHANGED <<pakVars, calls, dbVars, regVars, file_len, pages, mmaps, thr, db>>

MapReturn ==
    /\ pc = "map"
    /\ last.op # "none"
    /\ last' = NoCall
    /\ UNCHANGED <<pakVars, calls, dbVars, regVars, mapVars, db>>

NextMap ==
    \/ \E t \in Threads : EnterRegion(t)
    \/ \E t \in Threads : CheckPage(t)
    \/ \E t \in Threads : MapPage(t)
    \/ CallRead
    \/ MapReturn

SpecMap == InitMap /\ [][NextMap]_vars

-----------------------------------------------------------------------------
(* A MappedFile used by one thread: regions, reads, writes, close *)

MaxRegion == 2      \* size of a region asked for

InitReg ==
    /\ file_index = <<>>
    /\ pending = {}
    /\ tree = EmptyTree
    /\ pc = "reg"
    /\ loadErr = "none"
    /\ last = NoCall
    /\ calls = 0
    /\ stored = <<>>
    /\ blocks = <<>>
    /\ root_node = 0
    /\ repair = FALSE
    /\ walk = NoWalk
    /\ rdr = NoReader
    /\ db = NoDb
    /\ file_len \in (MaxFileLen - 1)..MaxFileLen
    /\ pages = <<>>
    /\ mmaps = [i \in PageIds |-> 0]
    /\ thr = [t \in Threads |-> IdleThread]
    /\ cursor = 0
    /\ reg = NoMapping.reg
    /\ file_open = TRUE
    /\ released = {}

RegIdle == pc = "reg" /\ last.op = "none"

\* region() has returned a region
HasRegion == reg.size > 0

NewMaps(pg) == [i \in PageIds |-> IF i \in DOMAIN pg \ DOMAIN pages THEN mmaps[i] + 1
                                  ELSE mmaps[i]]

RegionAnswer(op, offset, size, m) ==
    /\ last' = [NoCall EXCEPT !.op = op, !.offset = offset, !.size = size, !.err = m.err]
    /\ pages' = m.pages
    /\ mmaps' = NewMaps(m.pages)

\* MappedFile.region(offset, size), whose result becomes the region in hand
CallRegion ==
    /\ RegIdle
    /\ \E offset \in 0..(file_len - 1), size \in 1..MaxRegion :
        /\ RegionAnswer("region", offset, size,
                        MappedRegion(file_open, pages, file_len, offset, size))
        /\ reg' = IF last'.err = "none" THEN Region(offset, size) ELSE reg
    /\ UNCHANGED <<pakVars, calls, dbVars, file_len, thr, cursor, file_open, released, db>>

\* Region.region(offset, size) of the region in hand
CallSubRegion ==
    /\ RegIdle
    /\ HasRegion
    /\ \E offset \in -1..reg.size, size \in -1..MaxRegion :
        /\ RegionAnswer("sub_region", offset, size,
                        SubRegion(file_open, pages, file_len, reg, offset, size))
        /\ reg' = IF last'.err = "none"
                  THEN Region(SubRegion(file_open, pages, file_len, reg, offset, size).offset,
                              SubRegion(file_open, pages, file_len, reg, offset, size).size)
                  ELSE reg
    /\ UNCHANGED <<pakVars, calls, dbVars, file_len, thr, cursor, file_open, released, db>>

RegionReadAnswer(length, offset, advance, d) ==
    /\ d.regcur <= MaxCursor
    /\ d.rootcur <= MaxCursor
    /\ last' = [NoCall EXCEPT !.op = "region_read", !.size = length, !.offset = offset,
                              !.advance = advance, !.err = d.err, !.data = d.data,
                              !.num = reg.cursor]
    /\ reg' = [reg EXCEPT !.cursor = d.regcur]
    /\ cursor' = d.rootcur

\* Region.read(length, offset, advance) of the region in hand
CallRegionRead ==
    /\ RegIdle
    /\ HasRegion
    /\ \E length \in -1..(MaxRegion + 1), offset \in -1..reg.size, advance \in BOOLEAN :
        RegionReadAnswer(length, offset, advance,
            RegionRead(file_open, pages, file_len, cursor, reg, length, offset, advance))
    /\ UNCHANGED <<pakVars, calls, dbVars, file_len, pages, mmaps, thr, file_open, released, db>>

WriteAnswer(op, length, offset, err) ==
    last' = [NoCall EXCEPT !.op = op, !.size = length, !.offset = offset, !.err = err]

\* Region.write(value, length, offset) of the region in hand
CallRegionWrite ==
    /\ RegIdle
    /\ HasRegion
    /\ \E length \in -1..MaxRegion, offset \in -1..reg.size :
        WriteAnswer("region_write", length, offset, RegionWrite(reg, length, offset))
    /\ UNCHANGED <<pakVars, calls, dbVars, regVars, mapVars, db>>

\* MappedFile.write(value, offset, length)
CallWrite ==
    /\ RegIdle
    /\ \E length \in -1..MaxRegion, offset \in -1..file_len :
        WriteAnswer("write", length, offset, MappedWrite(length, offset))
    /\ UNCHANGED <<pakVars, calls, dbVars, regVars, mapVars, db>>

\* mapped[offset] = value
CallSetItem ==
    /\ RegIdle
    /\ \E offset \in 0..file_len :
        WriteAnswer("setitem", 1, offset, SetItemAt(file_open, file_len, offset))
    /\ UNCHANGED <<pakVars, calls, dbVars, regVars, mapVars, db>>

GetItemAnswer(offset, f) ==
    last' = [NoCall EXCEPT !.op = "getitem", !.offset = offset, !.err = f.err, !.data = f.data]

\* mapped[offset]
CallGetItem ==
    /\ RegIdle
    /\ \E offset \in 0..file_len :
        GetItemAnswer(offset, GetItem(file_open, pages, file_len, offset))
    /\ UNCHANGED <<pakVars, calls, dbVars, regVars, mapVars, db>>

\* MappedFile.close: every mapping is closed, then the file; closing a closed
\* mapping or a closed file is accepted by mmap and by file
CloseDone(err, released_, open) == [err |-> err, released |-> released_, open |-> open]

\* a close that refuses a file that is closed already
CloseOnce(pg, released_, open) ==
    IF open THEN CloseDone("none", released_ \cup DOMAIN pg, FALSE)
    ELSE CloseDone("value_error", released_, FALSE)

Close(pg, released_, open) == CloseDone("none", released_ \cup DOMAIN pg, FALSE)

CloseAnswer(before, c) ==
    /\ last' = [NoCall EXCEPT !.op = "close", !.err = c.err, !.looked = before]
    /\ released' = c.released
    /\ file_open' = c.open

CallClose ==
    /\ RegIdle
    /\ CloseAnswer(~file_open, Close(pages, released, file_open))
    /\ UNCHANGED <<pakVars, calls, dbVars, reg, mapVars, db>>

RegReturn ==
    /\ pc = "reg"
    /\ last.op # "none"
    /\ last' = NoCall
    /\ UNCHANGED <<pakVars, calls, dbVars, regVars, mapVars, db>>

NextReg ==
    \/ CallRegion
    \/ CallSubRegion
    \/ CallRegionRead
    \/ CallRegionWrite
    \/ CallWrite
    \/ CallSetItem
    \/ CallGetItem
    \/ CallClose
    \/ RegReturn

SpecReg == InitReg /\ [][NextReg]_vars

-----------------------------------------------------------------------------
(* A BTreeDB4 over any blocks: block(), the descent, a LeafReader *)

MaxBlocks == 3      \* blocks of the file
MaxSteps == 4       \* iterations of the descent that are followed
MaxReads == 2       \* reads of one LeafReader

Separator == [i \in 1..KeySize |-> 2]

\* the blocks a file may hold at index i: an index block over any two
\* neighbouring children, a leaf or a free block with any successor, a block
\* that was never written, a block with another signature
TreeIndexBlock(i, left) ==
    [IndexBlock(Separator, left, (left + 1) % MaxBlocks)
        EXCEPT ![3] = IF i = 0 THEN 1 ELSE 0]

TreeLeafBlock(i, next) ==
    SigLeaf \o [k \in 1..LeafData |-> 10 * i + k] \o PackI32(next)

TreeFreeBlock(i, next) ==
    SigFree \o PackI32(-1) \o [k \in 1..(LeafData - 4) |-> 10 * i + k] \o PackI32(next)

BlocksAt(i) ==
    {TreeIndexBlock(i, left) : left \in 0..(MaxBlocks - 1)}
    \cup {TreeLeafBlock(i, next) : next \in -1..(MaxBlocks - 1)}
    \cup {TreeFreeBlock(i, next) : next \in {-1, 0}}
    \cup {Zeros(BlockSize), <<88, 88>> \o Zeros(BlockSize - 2)}

InitTree ==
    /\ file_index = <<>>
    /\ pending = {}
    /\ tree = EmptyTree
    /\ pc = "tree"
    /\ loadErr = "none"
    /\ last = NoCall
    /\ calls = 0
    /\ stored = <<>>
    /\ blocks \in [0..(MaxBlocks - 1) -> UNION {BlocksAt(i) : i \in 0..(MaxBlocks - 1)}]
    /\ \A i \in 0..(MaxBlocks - 1) : blocks[i] \in BlocksAt(i)
    /\ root_node = 0
    /\ repair = FALSE
    /\ walk = NoWalk
    /\ rdr = NoReader
    /\ db = NoDb
    /\ file_len = NoMapping.file_len
    /\ pages = NoMapping.pages
    /\ mmaps = NoMapping.mmaps
    /\ thr = NoMapping.thr
    /\ cursor = NoMapping.cursor
    /\ reg = NoMapping.reg
    /\ file_open = NoMapping.file_open
    /\ released = NoMapping.released

TreeIdle == pc = "tree" /\ last.op = "none" /\ ~walk.on

BlockAnswer(index, block) ==
    [NoCall EXCEPT !.op = "block", !.num = index, !.err = block.err, !.kind = block.kind]

\* db.block(index)
CallBlock ==
    /\ TreeIdle
    /\ \E index \in 0..(MaxBlocks - 1) :
        last' = BlockAnswer(index, Block(blocks, index))
    /\ UNCHANGED <<pakVars, calls, dbVars, regVars, mapVars, db>>

\* db.repair = True, or False again
SetRepair ==
    /\ TreeIdle
    /\ ~rdr.on
    /\ repair' = ~repair
    /\ UNCHANGED <<pakVars, last, calls, stored, blocks, root_node, walk, rdr,
                   regVars, mapVars, db>>

\* _leaf_for_key after the loop: the assertion on the block it ended on
DescentAnswer(key, block) ==
    [NoCall EXCEPT !.op = "leaf_for_key", !.key = key, !.kind = block.kind,
                   !.num = block.index,
                   !.err = IF block.err # "none" THEN block.err
                           ELSE IF block.kind # "leaf" THEN "assert" ELSE "none"]

\* the loop test on the block just fetched: one more iteration, or the end
Descend(key, block, visited) ==
    IF block.err = "none" /\ block.kind = "index"
    THEN /\ walk' = [on |-> TRUE, key |-> key, block |-> block,
                     visited |-> Append(visited, block.index)]
         /\ UNCHANGED last
    ELSE /\ walk' = [on |-> FALSE, key |-> key, block |-> block, visited |-> visited]
         /\ last' = DescentAnswer(key, block)

\* _leaf_for_key: the root block is fetched
StartDescent ==
    /\ TreeIdle
    /\ ~rdr.on
    /\ \E key \in SeqsOfLen({1, 3}, KeySize) :
        Descend(key, Block(blocks, root_node), <<>>)
    /\ UNCHANGED <<pakVars, calls, stored, blocks, root_node, repair, rdr,
                   regVars, mapVars, db>>

\* _leaf_for_key: one iteration of the loop
DescentStep ==
    /\ pc = "tree"
    /\ walk.on
    /\ Len(walk.visited) <= MaxSteps
    /\ Descend(walk.key, Block(blocks, BlockForKey(walk.block, walk.key)), walk.visited)
    /\ UNCHANGED <<pakVars, calls, stored, blocks, root_node, repair, rdr,
                   regVars, mapVars, db>>

\* LeafReader(db, db.block(index))
OpenReader ==
    /\ TreeIdle
    /\ ~rdr.on
    /\ \E index \in 0..(MaxBlocks - 1) :
        LET leaf == Block(blocks, index) IN
        IF leaf.err = "none" /\ leaf.kind = "leaf"
        THEN /\ rdr' = [on |-> TRUE, r |-> LeafReader(leaf)]
             /\ last' = [NoCall EXCEPT !.op = "reader", !.num = index]
        ELSE /\ rdr' = rdr
             /\ last' = [NoCall EXCEPT !.op = "reader", !.num = index,
                                       !.err = IF leaf.err # "none" THEN leaf.err
                                               ELSE "assert"]
    /\ UNCHANGED <<pakVars, calls, stored, blocks, root_node, repair, walk,
                   regVars, mapVars, db>>

\* what a read gave; num is the successor of the leaf the read began on,
\* looked says that the read had to go beyond that leaf
ReaderAnswer(r, length, g) ==
    [NoCall EXCEPT !.op = "reader_read", !.size = length, !.err = g.err,
                   !.data = g.data, !.num = r.leaf.next,
                   !.looked = r.leaf.kind = "leaf"
                              /\ r.offset + length > Len(r.leaf.data)]

\* stream.read(length); the reader looks at _file.repair as it reads
CallReaderRead ==
    /\ TreeIdle
    /\ rdr.on
    /\ calls < MaxReads
    /\ \E length \in {LeafData - 1, LeafData, LeafData + 2, 2 * LeafData + 1} :
        LET g == ReaderRead(blocks, [rdr.r EXCEPT !.repair = repair], length) IN
        /\ rdr' = [rdr EXCEPT !.r = g.r]
        /\ last' = ReaderAnswer(rdr.r, length, g)
    /\ calls' = calls + 1
    /\ UNCHANGED <<pakVars, stored, blocks, root_node, repair, walk, regVars, mapVars, db>>

TreeReturn ==
    /\ pc = "tree"
    /\ last.op # "none"
    /\ last' = NoCall
    /\ walk' = NoWalk
    /\ UNCHANGED <<pakVars, calls, stored, blocks, root_node, repair, rdr,
                   regVars, mapVars, db>>

NextTree ==
    \/ CallBlock
    \/ SetRepair
    \/ StartDescent
    \/ DescentStep
    \/ OpenReader
    \/ CallReaderRead
    \/ TreeReturn

SpecTree == InitTree /\ [][NextTree]_vars

-----------------------------------------------------------------------------
(* A Pakfile opened on a package of any identifier: get_index, the loop of
   the constructor, then listings *)

Identifiers == {"Assets1", "Assets2", "Other"}

\* the value stored under _index: a list of paths, or a map from paths to
\* digests
IndexLists ==
    {l \in SeqsUpTo(AssetPaths, MaxIndex) : \A i, j \in 1..Len(l) : l[i] = l[j] => i = j}

IndexValues(identifier) == IF identifier = "Assets2" THEN Indexes ELSE IndexLists

\* sbon.read_string_list: the strings, in a list
ReadStringList(value) == [type |-> "list", items |-> value]

\* sbon.read_string_digest_map: the digests by their strings, in a dict
ReadStringDigestMap(value) == [type |-> "dict", items |-> value]

\* Package.get_index: _index is set for Assets1 and for Assets2 only, and is
\* returned as it is
GetIndexAs(d, decoded) == [d EXCEPT !.index_type = decoded.type, !.index = decoded.items]

GetIndex(d) ==
    IF d.identifier = "Assets1" THEN GetIndexAs(d, ReadStringList(d.index_value))
    ELSE IF d.identifier = "Assets2" THEN GetIndexAs(d, ReadStringDigestMap(d.index_value))
    ELSE d

InitOpen ==
    /\ file_index = <<>>
    /\ pending = {}
    /\ tree = EmptyTree
    /\ pc = "opening"
    /\ loadErr = "none"
    /\ last = NoCall
    /\ calls = 0
    /\ stored = <<>>
    /\ blocks = <<>>
    /\ root_node = 0
    /\ repair = FALSE
    /\ walk = NoWalk
    /\ rdr = NoReader
    /\ \E identifier \in Identifiers : \E value \in IndexValues(identifier) :
        db = [NoDb EXCEPT !.identifier = identifier, !.index_value = value]
    /\ file_len = NoMapping.file_len
    /\ pages = NoMapping.pages
    /\ mmaps = NoMapping.mmaps
    /\ thr = NoMapping.thr
    /\ cursor = NoMapping.cursor
    /\ reg = NoMapping.reg
    /\ file_open = NoMapping.file_open
    /\ released = NoMapping.released

\* Pakfile.__init__ up to the loop: file_index = self.pkg.get_index(), then
\* file_index.iteritems(), which only a dict has
Iterate(d) ==
    /\ db' = d
    /\ IF d.index_type = "dict"
       THEN /\ file_index' = d.index
            /\ pending' = DOMAIN d.index
            /\ pc' = "loading"
            /\ loadErr' = "none"
       ELSE /\ file_index' = <<>>
            /\ pending' = {}
            /\ pc' = "failed"
            /\ loadErr' = "attribute_error"

OpenIndex ==
    /\ pc = "opening"
    /\ Iterate(GetIndex(db))
    /\ UNCHANGED <<tree, last, calls, dbVars, regVars, mapVars>>

NextOpen ==
    \/ OpenIndex
    \/ Register
    \/ Loaded
    \/ CallGetDirectoryListing
    \/ Return

SpecOpen == InitOpen /\ [][NextOpen]_vars

-----------------------------------------------------------------------------
(* A BTreeDB4 of pak/storage and its two roots: __load, then commit() *)

MaxCommits == 3     \* commit() calls that are followed

\* struct.unpack('>i?xi?xxxi?', ...): key_size, the flag, root A and its
\* is-leaf flag, root B and its is-leaf flag; a ? is true for a byte that is
\* not zero; one block has one kind, whichever root names it
HeaderFields ==
    {f \in [key_size : {KeySize}, alt : {0, 1},
            root_a : 0..(MaxBlocks - 1), root_a_is_leaf : {0, 1},
            root_b : 0..(MaxBlocks - 1), root_b_is_leaf : {0, 1}] :
        f.root_a = f.root_b => f.root_a_is_leaf = f.root_b_is_leaf}

Bool(byte) == byte # 0

\* BTreeDB4.__load: the roots by alternate_root_node
Load(d, fields) ==
    IF Bool(fields.alt)
    THEN [root_node |-> fields.root_b,
          db |-> [d EXCEPT !.fields = fields, !.alternate_root_node = TRUE,
                           !.root_node_is_leaf = Bool(fields.root_b_is_leaf),
                           !.other_root_node = fields.root_a,
                           !.other_root_node_is_leaf = Bool(fields.root_a_is_leaf)]]
    ELSE [root_node |-> fields.root_a,
          db |-> [d EXCEPT !.fields = fields, !.alternate_root_node = FALSE,
                           !.root_node_is_leaf = Bool(fields.root_a_is_leaf),
                           !.other_root_node = fields.root_b,
                           !.other_root_node_is_leaf = Bool(fields.root_b_is_leaf)]]

\* a commit that leaves alternate_root_node as it is
CommitKeepsFlag(root, d) ==
    [root_node |-> d.other_root_node, db |-> [d EXCEPT !.other_root_node = root]]

\* BTreeDB4.commit
Commit(root, d) ==
    [root_node |-> d.other_root_node,
     db |-> [d EXCEPT !.other_root_node = root,
                      !.alternate_root_node = ~d.alternate_root_node]]

InitHdr ==
    /\ file_index = <<>>
    /\ pending = {}
    /\ tree = EmptyTree
    /\ pc = "hdr"
    /\ loadErr = "none"
    /\ last = NoCall
    /\ calls = 0
    /\ stored = <<>>
    /\ blocks = <<>>
    /\ \E fields \in HeaderFields :
        /\ root_node = Load(NoDb, fields).root_node
        /\ db = Load(NoDb, fields).db
    /\ repair = FALSE
    /\ walk = NoWalk
    /\ rdr = NoReader
    /\ file_len = NoMapping.file_len
    /\ pages = NoMapping.pages
    /\ mmaps = NoMapping.mmaps
    /\ thr = NoMapping.thr
    /\ cursor = NoMapping.cursor
    /\ reg = NoMapping.reg
    /\ file_open = NoMapping.file_open
    /\ released = NoMapping.released

\* db.commit()
CallCommit ==
    /\ pc = "hdr"
    /\ calls < MaxCommits
    /\ root_node' = Commit(root_node, db).root_node
    /\ db' = Commit(root_node, db).db
    /\ calls' = calls + 1
    /\ UNCHANGED <<pakVars, last, stored, blocks, repair, walk, rdr, regVars, mapVars>>

NextHdr == CallCommit

SpecHdr == InitHdr /\ [][NextHdr]_vars

-----------------------------------------------------------------------------
(* Properties of Pakfile and VFS *)

\* the components of an asset path "/n1/n2/..": its names, one character each
Components(p) == [i \in 1..(Len(p) \div 2) |-> <<p[2 * i]>>]

IsPrefix(a, b) == Len(a) <= Len(b) /\ SubSeq(b, 1, Len(a)) = a

\* the files and the directories the index describes
IndexFiles == {Components(p) : p \in DOMAIN file_index}
IndexDirs ==
    UNION {{SubSeq(f, 1, k) : k \in 0..(Len(f) - 1)} : f \in IndexFiles}

\* the next components of the index paths below a directory
NextBelow(d) ==
    {f[Len(d) + 1] : f \in {g \in IndexFiles : Len(g) > Len(d) /\ IsPrefix(d, g)}}

\* bytes [o, o + l) of c, clipped at the end of c
Clip(c, o, l) ==
    LET n == IF l < Len(c) - o THEN l ELSE Len(c) - o
    IN  [i \in 1..(IF n < 0 THEN 0 ELSE n) |-> c[o + i]]

ContentsOfIndexPath == stored[PackageEncodeKey(last.path)]

C2_NegativeLengthToEnd ==
    (last.op = "get_file_contents" /\ last.path \in DOMAIN file_index /\ last.size < 0)
        => /\ last.err = "none"
           /\ last.data = Clip(ContentsOfIndexPath, last.offset, Len(ContentsOfIndexPath))

\* C4: after the load, directory_listing("/") is exactly the set of first
\* components of the index paths, and directory_listing(d) of a directory d is
\* exactly the set of next components of the index paths below d.
C4_ListingIsNextComponents ==
    last.op = "get_directory_listing" =>
        /\ last.path = <<Sep>> =>
            last.err = "none" /\ last.names = NextBelow(<<>>)
        /\ SplitPath(last.path) \in IndexDirs =>
            last.err = "none" /\ last.names = NextBelow(SplitPath(last.path))

\* the listing of a directory below the root that holds two files
C4_ListedSubdirectory ==
    /\ last.op = "get_directory_listing"
    /\ Len(last.at) = 1
    /\ SplitPath(last.path) \in IndexDirs
    /\ last.err = "none"
    /\ Cardinality(last.names) = 2

\* the index holds a path as a file and a path below it
Conflict ==
    \E p, q \in DOMAIN file_index :
        p # q /\ IsPrefix(Components(p), Components(q))

\* C5: when the index holds a path P as a file and a path P/x below it, the
\* load fails with is-a-dir or not-a-dir in either order of insertion, with no
\* other kind of error, and never succeeds.
C5_ConflictIsDirError ==
    Conflict => /\ pc # "ready"
                /\ pc = "failed" => loadErr \in {"is_a_dir", "not_a_dir"}

\* C7: entry("/") is the root directory and not a file; for every other path a
\* missing component (also one looked up below a file) fails with not-found and
\* nothing else; otherwise is_file tells an index entry from a directory.
C7_MissingIsNotFound ==
    last.op = "get_entry" =>
        IF last.path = <<Sep>> THEN last.err = "none" /\ ~last.isfile
        ELSE IF SplitPath(last.path) \in IndexFiles THEN last.err = "none" /\ last.isfile
        ELSE IF SplitPath(last.path) \in IndexDirs THEN last.err = "none" /\ ~last.isfile
        ELSE last.err = "not_found"

\* C8: directory_listing on a file fails with not-a-dir, file_size and
\* file_contents on a directory (also on "/") fail with is-a-dir, each before
\* any lookup in the B-tree.
C8_KindBeforeLookup ==
    /\ (last.op = "get_directory_listing" /\ SplitPath(last.path) \in IndexFiles)
        => last.err = "not_a_dir" /\ ~last.looked
    /\ (/\ last.op \in {"get_size", "get_file_contents"}
        /\ (last.path = <<Sep>> \/ SplitPath(last.path) \in IndexDirs))
        => last.err = "is_a_dir" /\ ~last.looked

\* a read of a directory below the root
C8_ReadOfDirectory ==
    /\ last.op = "get_file_contents"
    /\ SplitPath(last.path) \in IndexDirs
    /\ last.err = "is_a_dir"
    /\ ~last.looked

-----------------------------------------------------------------------------
(* Properties of VFS.add_file *)

\* C6: no add_file call, successful or failing, replaces a binding of the
\* tree: a directory stays that directory, a file keeps the first entry placed
\* there, and a duplicate add_file of a file's path is accepted and changes
\* nothing.
C6_NoBindingReplaced ==
    [][/\ \A n \in DOMAIN tree : n \in DOMAIN tree' /\ tree'[n] = tree[n]
       /\ (/\ Components(last'.path) \in DOMAIN tree
           /\ ~tree[Components(last'.path)].isdir)
           => last'.err = "none" /\ tree' = tree]_vars

\* a duplicate add_file with another lookup entry was accepted, the first kept
C6_DuplicateKeptFirst ==
    /\ last.op = "add_file"
    /\ last.err = "none"
    /\ Components(last.path) \in DOMAIN tree
    /\ tree[Components(last.path)].lookup # last.lookup

-----------------------------------------------------------------------------
(* Properties of the record lookups *)

\* C3: for every key stored in a leaf record, at whatever position, the size
\* query returns the length of the value the value query returns: the size
\* scan skips each entry's payload before it reads the next key.
C3_SizeIsValueLength ==
    (last.op \in {"file_size", "get_binary_size"} /\ last.key \in DOMAIN stored)
        => last.err = "none" /\ last.num = Len(stored[last.key])

-----------------------------------------------------------------------------
(* Properties of MappedFile *)

\* C9: with threads calling region() at once for ranges that cover the same
\* unmapped page, no interleaving of the lookup and the insertion maps the
\* page twice.
C9_PageMappedOnce == \A i \in PageIds : mmaps[i] <= 1

\* every page of the file is mapped
AllMapped == \A i \in 0..((file_len - 1) \div PageSize) : i \in DOMAIN pages

\* bytes [lo, hi) of the file
FileBytes(lo, hi) == [k \in 1..(hi - lo) |-> FileByte(lo + k - 1)]

\* C10: read(length, offset, advance) with 0 <= offset < F and length >= 1
\* returns exactly the min(length, F - offset) bytes of the file from offset,
\* also across page boundaries and past the end of the file.
C10_ReadLength ==
    (/\ last.op = "read" /\ AllMapped
     /\ 0 <= last.offset /\ last.offset < file_len /\ last.size >= 1)
        => /\ last.err = "none"
           /\ last.data = FileBytes(last.offset,
                                    last.offset + Min(last.size, file_len - last.offset))

-----------------------------------------------------------------------------
(* Properties of Region *)

\* C11: a read R.read(n, o) with 0 <= o < R.size has its length clamped to
\* R.size - o and equals root.read(min(n, R.size - o), R.base + o): it never
\* returns bytes beyond the end of the region.
C11_RegionReadClamped ==
    (/\ last.op = "region_read"
     /\ 0 <= last.offset /\ last.offset < reg.size /\ last.size >= 1)
        => /\ last.err = MappedReadOf(file_open, pages, file_len, 0,
                                      Min(last.size, reg.size - last.offset),
                                      reg.base + last.offset).err
           /\ last.data = MappedReadOf(file_open, pages, file_len, 0,
                                       Min(last.size, reg.size - last.offset),
                                       reg.base + last.offset).data

\* C12: every out-of-range access fails with region-overflow: a read at an
\* offset >= the region's size, given or taken from a cursor at the end, and a
\* byte access at an index >= the size.
C12_OutOfRangeIsOverflow ==
    /\ (/\ last.op = "region_read"
        /\ \/ last.offset >= reg.size
           \/ last.offset < 0 /\ last.num >= reg.size)
        => last.err = "region_overflow"
    /\ (last.op = "getitem" /\ last.offset >= file_len /\ file_open)
        => last.err = "region_overflow"

\* C13: with the mapping read-only, a write through the root, a write through
\* a region and an indexed assignment all fail with read-only.
C13_WriteIsReadOnly ==
    (ReadOnly /\ last.op \in {"write", "region_write", "setitem"})
        => last.err = "read_only"

\* C14: a read with advance=false leaves the region's and the root's cursor
\* alone; a read with advance=true moves the region's cursor by the number of
\* bytes returned, and a read at the cursor returns the file's bytes from
\* there, so that successive default reads return consecutive ranges.
C14_CursorAdvance ==
    [][last'.op = "region_read" =>
        /\ ~last'.advance => reg'.cursor = reg.cursor /\ cursor' = cursor
        /\ (last'.advance /\ last'.err = "none")
            => reg'.cursor = reg.cursor + Len(last'.data)
        /\ last'.err # "none" => reg'.cursor = reg.cursor /\ cursor' = cursor
        /\ (last'.err = "none" /\ last'.offset < 0)
            => last'.data = [k \in 1..Len(last'.data) |->
                                FileByte(reg.base + reg.cursor + k - 1)]]_vars

\* a second default read, which went on where the first one stopped
C14_SecondDefaultRead ==
    /\ last.op = "region_read"
    /\ last.advance
    /\ last.offset < 0
    /\ last.err = "none"
    /\ last.num > 0
    /\ Len(last.data) > 0
    /\ reg.cursor = last.num + Len(last.data)

\* C15: close() releases every mapped page and the file, and a second close()
\* raises nothing and leaves the state as the first one left it.
C15_CloseIdempotent ==
    [][last'.op = "close" =>
        /\ last'.err = "none"
        /\ ~file_open'
        /\ released' = DOMAIN pages
        /\ ~file_open => UNCHANGED <<regVars, mapVars>>]_vars

\* a second close() of a mapping that had pages
C15_ClosedTwice ==
    /\ last.op = "close"
    /\ last.looked
    /\ last.err = "none"
    /\ released # {}
    /\ ~file_open

-----------------------------------------------------------------------------
(* Properties of the blocks, the descent and the LeafReader *)

SignatureAt(index) == SubSeq(blocks[index], 1, 2)

\* C16: block(i) on a block whose signature is two zero bytes returns the
\* null block and raises nothing; on any signature other than II, LL, FF and
\* the null one it raises the invalid-signature error; on II, LL and FF it
\* returns an index block, a leaf, a free block.
C16_BlockBySignature ==
    last.op = "block" =>
        LET signature == SignatureAt(last.num) IN
        IF signature = SigNull THEN last.err = "none" /\ last.kind = "none"
        ELSE IF signature = SigIndex THEN last.err = "none" /\ last.kind = "index"
        ELSE IF signature = SigLeaf THEN last.err = "none" /\ last.kind = "leaf"
        ELSE IF signature = SigFree THEN last.err = "none" /\ last.kind = "free"
        ELSE last.err = "invalid_signature"

NoDuplicates(s) == \A i, j \in 1..Len(s) : s[i] = s[j] => i = j

\* C17: a descent takes at most level(root) + 1 steps and never visits the
\* same index block twice, so it terminates on a file whose index blocks
\* point at one another in a cycle.
C17_DescentBounded ==
    walk.visited # <<>> =>
        /\ NoDuplicates(walk.visited)
        /\ Len(walk.visited) <= Block(blocks, root_node).level + 1

\* C18: within one LeafReader the list of visited blocks only grows and
\* holds no block twice, so a reader follows at most block_count links; a
\* read that meets a next_block of -1 or one already visited fails with an
\* assertion, and that is the only way it stops on such a pointer.
C18_VisitedGrows ==
    [][rdr'.on =>
        /\ NoDuplicates(rdr'.r.visited)
        /\ Len(rdr'.r.visited) - 1 <= Cardinality(DOMAIN blocks)
        /\ rdr.on => IsPrefix(rdr.r.visited, rdr'.r.visited)
        /\ (last'.op = "reader_read" /\ last'.looked) =>
            /\ rdr.r.leaf.next = -1 => last'.err = "too_far"
            /\ (rdr.r.leaf.next # -1 /\ InSeq(rdr.r.leaf.next, rdr.r.visited))
                   => last'.err = "visited_again"
            /\ last'.err = "too_far" => rdr'.r.leaf.next = -1
            /\ last'.err = "visited_again"
                   => InSeq(rdr'.r.leaf.next, rdr'.r.visited)
            /\ last'.err = "none" => Len(last'.data) = last'.size]_vars

\* a read that followed a link and then met a block it had visited
C18_CycleMet ==
    /\ last.op = "reader_read"
    /\ last.err = "visited_again"
    /\ Len(rdr.r.visited) >= 2

\* C19: the first read of a reader goes two bytes beyond its leaf, and the
\* leaf's next_block is a free block. With repair off the read fails with
\* the chain-broken assertion; with repair on the free block is read as a
\* leaf (its bytes after the signature up to the last four are the data)
\* and the read succeeds with the leaf's data and the first two such bytes.
C19_FreeBlockInChain ==
    (/\ last.op = "reader_read"
     /\ calls = 1
     /\ last.size = LeafData + 2
     /\ last.num \in DOMAIN blocks
     /\ SignatureAt(last.num) = SigFree)
    => IF repair
       THEN /\ last.err = "none"
            /\ last.data = SubSeq(blocks[rdr.r.visited[1]], 3, BlockSize - 4)
                            \o SubSeq(blocks[last.num], 3, 4)
       ELSE last.err = "chain_broken"

-----------------------------------------------------------------------------
(* Properties of the keyed lookups *)

\* C20: the value lookup returns the value of the first entry of the record
\* whose key equals the encoded key; it fails with the key-not-found error
\* exactly when no entry has the key, and the error carries the hex form of
\* the encoded key, followed by the original path in brackets when the
\* lookup started from a path.
C20_ValueOfFirstEntry ==
    last.op \in {"file_contents", "file_contents_path"} =>
        /\ last.op = "file_contents_path" => last.key = PackageEncodeKey(last.path)
        /\ IF last.key \in DOMAIN stored
           THEN last.err = "none" /\ last.data = stored[last.key]
           ELSE /\ last.err = "key_error"
                /\ last.msg = Hexlify(last.key)
                              \o (IF last.op = "file_contents_path"
                                  THEN <<" ", "(">> \o last.path \o <<")">>
                                  ELSE <<>>)

\* the path A is asked for in a record that holds other keys only
C20_MissingPath ==
    /\ last.op = "file_contents_path"
    /\ last.path = <<"A">>
    /\ stored # <<>>
    /\ last.err = "key_error"
    /\ last.msg = <<"3", "a", " ", "(", "A", ")">>

-----------------------------------------------------------------------------
(* Properties of the index of a package *)

\* C21: on a database whose identifier is neither Assets1 nor Assets2,
\* loading the index fails with the unsupported-identifier error: no empty
\* or null index is returned and opening the package fails with no other
\* kind of error.
C21_OtherIdentifierUnsupported ==
    (db.identifier \notin {"Assets1", "Assets2"} /\ pc # "opening")
        => pc = "failed" /\ loadErr = "unsupported_identifier"

\* the first components of the paths below the directory at
NamesBelow(paths, at) ==
    {SplitPath(p)[Len(at) + 1] :
        p \in {q \in paths : /\ Len(SplitPath(q)) > Len(at)
                              /\ SubSeq(SplitPath(q), 1, Len(at)) = at}}

ListedPaths == {db.index_value[i] : i \in 1..Len(db.index_value)}

\* C22: for an Assets1 package the index is a mapping in which every listed
\* path is mapped to the path itself, and the VFS is built from it: the
\* constructor does not fail, and a listing of a directory gives the next
\* components of the listed paths below it (none below the root for the
\* index []).
C22_Assets1IndexIsIdentityMap ==
    (db.identifier = "Assets1" /\ pc # "opening")
        => /\ db.index_type = "dict"
           /\ file_index = [p \in ListedPaths |-> p]
           /\ pc # "failed"
           /\ (last.op = "get_directory_listing" /\ last.err = "none")
                  => last.names = NamesBelow(ListedPaths, last.at)

-----------------------------------------------------------------------------
(* Properties of the two roots *)

\* C23: after __load and after any number of commits, the active root is
\* root B and the other root is root A exactly when the flag is true, and
\* the reverse when it is false; a commit swaps the two roots and toggles
\* the flag, so after an even number of commits the roots and the flag are
\* those of the header.
C23_RootsFollowFlag ==
    pc = "hdr" =>
        /\ db.alternate_root_node
              => root_node = db.fields.root_b /\ db.other_root_node = db.fields.root_a
        /\ ~db.alternate_root_node
              => root_node = db.fields.root_a /\ db.other_root_node = db.fields.root_b
        /\ db.alternate_root_node = (Bool(db.fields.alt) = (calls % 2 = 0))

\* two commits on a header whose roots are two blocks
C23_TwoCommits ==
    /\ pc = "hdr"
    /\ calls = 2
    /\ db.fields.root_a # db.fields.root_b
    /\ root_node = Load(NoDb, db.fields).root_node

\* C27: after any number of commits the is-leaf flag recorded for the active
\* root is the one the header gives for the block that is the active root,
\* and the same for the other root: a commit keeps each root with its flag.
C27_LeafFlagFollowsRoot ==
    pc = "hdr" =>
        IF db.alternate_root_node
        THEN /\ db.root_node_is_leaf = Bool(db.fields.root_b_is_leaf)
             /\ db.other_root_node_is_leaf = Bool(db.fields.root_a_is_leaf)
        ELSE /\ db.root_node_is_leaf = Bool(db.fields.root_a_is_leaf)
             /\ db.other_root_node_is_leaf = Bool(db.fields.root_b_is_leaf)

-----------------------------------------------------------------------------
(* Properties of the stream of a LeafReader *)

\* the leaves' data from block i on in next_block order, as the file holds
\* them; ok says that the chain is one of leaves that ends within steps links
RECURSIVE ChainFrom(_, _)
ChainFrom(i, steps) ==
    IF i = -1 THEN [ok |-> TRUE, data |-> <<>>]
    ELSE IF steps = 0 \/ i \notin DOMAIN blocks \/ SignatureAt(i) # SigLeaf
         THEN [ok |-> FALSE, data |-> <<>>]
    ELSE LET rest == ChainFrom(UnpackI32(SubSeq(blocks[i], BlockSize - 3, BlockSize)),
                               steps - 1)
         IN  [ok |-> rest.ok, data |-> SubSeq(blocks[i], 3, BlockSize - 4) \o rest.data]

Stream(r) == ChainFrom(r.visited[1], Cardinality(DOMAIN blocks))

\* how far into the stream a reader is: the leaves it has left, and its
\* offset in the leaf it is on
Position(r) == (Len(r.visited) - 1) * LeafData + r.offset

\* C24: a reader over a chain of leaves without a cycle starts at the first
\* byte of the stream, and every read(n) the rest of the stream can satisfy
\* returns the next n bytes of it and leaves the reader n bytes further, so
\* the results of the reads, put together, are the first bytes of the
\* stream: none is skipped or given twice, wherever a read ends.
C24_ReadsAreTheStream ==
    [][/\ (~rdr.on /\ rdr'.on) => Position(rdr'.r) = 0
       /\ (/\ rdr.on
           /\ last'.op = "reader_read"
           /\ Stream(rdr.r).ok
           /\ Position(rdr.r) + last'.size <= Len(Stream(rdr.r).data))
          => /\ last'.err = "none"
             /\ last'.data = SubSeq(Stream(rdr.r).data, Position(rdr.r) + 1,
                                    Position(rdr.r) + last'.size)
             /\ Position(rdr'.r) = Position(rdr.r) + last'.size]_vars

\* a read that ended at the end of the first leaf, then one that goes over
\* the second leaf into the third
C24_AcrossTwoBoundaries ==
    /\ last.op = "reader_read"
    /\ last.err = "none"
    /\ calls = 2
    /\ last.size = LeafData + 2
    /\ rdr.r.offset = 2
    /\ Len(rdr.r.visited) = 3
    /\ Stream(rdr.r).ok

-----------------------------------------------------------------------------
(* Properties of the page map *)

\* the pages that hold a byte of [offset, offset + size)
PagesOf(offset, size) == (offset \div PageSize)..((offset + size - 1) \div PageSize)

NewPages == DOMAIN pages' \ DOMAIN pages

\* C25: in any sequence of region() and read() calls before close() the set
\* of mapped pages only grows and a mapped page keeps its mapping; a page is
\* mapped by a region() call only, one that covers it, and no mapping is
\* released before close().
C25_PagesLazyAndKept ==
    [][/\ \A i \in DOMAIN pages : i \in DOMAIN pages' /\ pages'[i] = pages[i]
       /\ NewPages # {} => last'.op \in {"region", "sub_region"}
       /\ last'.op = "region" => NewPages \subseteq PagesOf(last'.offset, last'.size)
       /\ released' # released => last'.op = "close"]_vars

\* C26: region(offset, size) with size >= 1 maps only pages that hold a byte
\* of [offset, offset + size), the pages offset div P to (offset + size - 1)
\* div P; it asks for no page behind them, so a region that lies inside the
\* file fails on no page at or past the end of the file.
C26_OnlyIntersectingPages ==
    [][(last'.op = "region" /\ last'.size >= 1) =>
          /\ \A i \in NewPages :
                /\ i * PageSize < last'.offset + last'.size
                /\ (i + 1) * PageSize > last'.offset
          /\ last'.offset + last'.size <= file_len => last'.err = "none"]_vars

=============================================================================
